---- MODULE Spec2Model ----
(***************************************************************************)
(* Model of the content-publish-services HTTP gateway: five Express        *)
(* routers (users, content posts, announcements, registered emails, auth)  *)
(* mounted under /v1, each route a pass-through to the hosted database     *)
(* client.  One action per request; a request is dispatched through the    *)
(* mounted routers and handled by the matching route handler, or by the    *)
(* framework when no route matches or the handler throws.                  *)
(***************************************************************************)
EXTENDS Integers, Sequences, FiniteSets, TLC

VARIABLES users, content_posts, announcements, registered_emails,
          seq, fresh, now, req, res, inflight, target

vars == <<users, content_posts, announcements, registered_emails,
          seq, fresh, now, req, res, inflight, target>>

tables == <<users, content_posts, announcements, registered_emails>>

\* the database: the tables, the serial counters, the rows inserted so far
db == <<tables, seq, fresh>>

(***************************************************************************)
(* Bounds of the model.                                                    *)
(***************************************************************************)
\* rows a run may insert beyond the initial rows
MaxFresh == 2
\* bcrypt draws a random salt per hash; the model draws it from 1..NumSalts
NumSalts == 2
\* clock ticks (half days) a run may take
MaxTicks == 33
\* concurrent create requests in flight
NumClients == 2
\* how far below its ceiling a table may start
InitGap == 2

(***************************************************************************)
(* Program constants.                                                      *)
(***************************************************************************)
UsersCeiling == 10
PostsCeiling == 5
AnnouncementsCeiling == 5
EmailsCeiling == 60
ExpiryDays == 15
MsPerDay == 1000 * 60 * 60 * 24
TickMs == MsPerDay \div 2

TableNames == {"users", "content_posts", "announcements", "registered_emails"}

Ceiling(t) ==
  CASE t = "users" -> UsersCeiling
    [] t = "content_posts" -> PostsCeiling
    [] t = "announcements" -> AnnouncementsCeiling
    [] t = "registered_emails" -> EmailsCeiling

(***************************************************************************)
(* Values.  A string in password position is a record: hashed says whether *)
(* it is bcrypt output, salt and text what the output was computed from.   *)
(***************************************************************************)
Null == "NULL"

Plain(text) == [hashed |-> FALSE, salt |-> 0, text |-> text]

Salts == 1 .. NumSalts

\* bcrypt.hash(password, 10) with the salt the library drew
BcryptHash(pw, salt) == [hashed |-> TRUE, salt |-> salt, text |-> pw.text]

\* bcrypt.compare(password, stored): re-hash with the stored salt and compare
BcryptCompare(pw, stored) ==
  /\ stored.hashed
  /\ BcryptHash(pw, stored.salt) = stored

\* JavaScript !x for a body field: absent, or the empty string
FalsyStr(body, f) == f \notin DOMAIN body \/ body[f] = ""
FalsyPw(body) == "password" \notin DOMAIN body \/ body.password = Plain("")
FalsyId(body) == "id" \notin DOMAIN body \/ body.id = 0

\* { a, ...rest } = body : the body without field a
Rest(body, a) == [f \in DOMAIN body \ {a} |-> body[f]]

\* { ...a, ...b } : b's fields over a's
Spread(a, b) ==
  [f \in DOMAIN a \cup DOMAIN b |-> IF f \in DOMAIN b THEN b[f] ELSE a[f]]

(***************************************************************************)
(* The database behind the client.  A table is a function from the ids of  *)
(* its rows to the rows; ids come from a serial counter.                   *)
(***************************************************************************)
UserDefaults ==
  [email |-> Null, password |-> Plain(Null), first_name |-> Null,
   middle_name |-> Null, last_name |-> Null, suffix |-> Null]
PostDefaults == [title |-> Null]
EmailDefaults == [email |-> Null]
AnnouncementDefaults == [title |-> Null, created_at |-> now]

Count(tbl) == Cardinality(DOMAIN tbl)

\* .insert(rows).select(): every row gets the next serial ids
InsertRows(tbl, first, defaults, rows) ==
  [i \in DOMAIN tbl \cup (first .. first + Len(rows) - 1) |->
     IF i \in DOMAIN tbl THEN tbl[i]
     ELSE Spread(Spread(defaults, rows[i - first + 1]), [id |-> i])]

Inserted(tbl, first, rows) ==
  [k \in 1 .. Len(rows) |-> tbl[first + k - 1]]

\* .update(fields).eq('id', id).select()
\* (variant without the .eq filter)
MutUpdateRowsNoFilter(tbl, id, fields) ==
  [i \in DOMAIN tbl |-> Spread(tbl[i], fields)]
UpdateRows(tbl, id, fields) ==
  [i \in DOMAIN tbl |-> IF i = id THEN Spread(tbl[i], fields) ELSE tbl[i]]

\* .delete().in('id', ids)
\* (variant without the filter)
MutDeleteRowsAll(tbl, ids) == <<>>
DeleteRows(tbl, ids) == [i \in DOMAIN tbl \ ids |-> tbl[i]]

\* .select('*').eq(col, v)
SelectEq(tbl, col, v) == {tbl[i] : i \in {j \in DOMAIN tbl : tbl[j][col] = v}}

\* .single(): exactly one row, otherwise an error
\* (variant that takes a row whenever there is one)
MutSingleTakesAny(rows, be) ==
  IF be = "ok" /\ rows # {}
  THEN [error |-> FALSE, data |-> CHOOSE r \in rows : TRUE]
  ELSE [error |-> TRUE, data |-> Null]
Single(rows, be) ==
  IF be = "ok" /\ Cardinality(rows) = 1
  THEN [error |-> FALSE, data |-> CHOOSE r \in rows : TRUE]
  ELSE [error |-> TRUE, data |-> Null]

\* the rows of a table as the array a select returns (ordered by id)
RECURSIVE RowsFrom(_, _)
RowsFrom(tbl, ids) ==
  IF ids = {} THEN <<>>
  ELSE LET m == CHOOSE i \in ids : \A j \in ids : i <= j
       IN <<tbl[m]>> \o RowsFrom(tbl, ids \ {m})
SelectAll(tbl) == RowsFrom(tbl, DOMAIN tbl)

\* outcome of one backend call
Backend == {"ok", "error"}

(***************************************************************************)
(* Responses.                                                              *)
(***************************************************************************)
Json(status, body) == [status |-> status, type |-> "json", body |-> body]
Err(msg) == [error |-> msg]
BackendMsg == "backend error"

\* no route matched: the framework's own 404 page
NotFoundPage == [status |-> 404, type |-> "html", body |-> "Cannot"]
\* a handler's promise rejected: left unhandled (no response is ever sent), or
\* forwarded to the framework's error page, depending on the framework version
Rejections ==
  {[status |-> 0, type |-> "none", body |-> "pending"],
   [status |-> 500, type |-> "html", body |-> "Internal Server Error"]}

(***************************************************************************)
(* Routing.  A path is the sequence of its pieces between slashes, so a    *)
(* path with a leading slash starts with the empty piece.                  *)
(***************************************************************************)
userRouter ==
  << [method |-> "GET", path |-> <<"", "get-all-users">>, handler |-> "get-all-users"],
     [method |-> "GET", path |-> <<"", "get-user", ":id">>, handler |-> "get-user"],
     [method |-> "POST", path |-> <<"", "create-user">>, handler |-> "create-user"],
     [method |-> "POST", path |-> <<"", "create-users">>, handler |-> "create-users"],
     [method |-> "PUT", path |-> <<"", "update-user">>, handler |-> "update-user"],
     [method |-> "DELETE", path |-> <<"", "delete-user", ":id">>, handler |-> "delete-user"],
     [method |-> "DELETE", path |-> <<"", "delete-users">>, handler |-> "delete-users"] >>

authRouter ==
  << [method |-> "POST", path |-> <<"", "login">>, handler |-> "login"] >>

announcementRouter ==
  << [method |-> "GET", path |-> <<"", "get-all-announcements">>, handler |-> "get-all-announcements"],
     [method |-> "GET", path |-> <<"", "get-announcement", ":id">>, handler |-> "get-announcement"],
     [method |-> "POST", path |-> <<"", "create-announcement">>, handler |-> "create-announcement"],
     [method |-> "PUT", path |-> <<"", "update-announcement">>, handler |-> "update-announcement"],
     [method |-> "DELETE", path |-> <<"", "delete-announcement", ":id">>, handler |-> "delete-announcement"],
     [method |-> "DELETE", path |-> <<"", "delete-announcements", "">>, handler |-> "delete-announcements"] >>

registeredEmailRouter ==
  << [method |-> "GET", path |-> <<"", "get-all-registered-emails">>, handler |-> "get-all-registered-emails"],
     [method |-> "GET", path |-> <<"", "get-registered-email", ":id">>, handler |-> "get-registered-email"],
     [method |-> "POST", path |-> <<"", "register">>, handler |-> "register"],
     [method |-> "DELETE", path |-> <<"", "delete-email", ":id">>, handler |-> "delete-email"],
     [method |-> "DELETE", path |-> <<"", "delete-emails">>, handler |-> "delete-emails"] >>

contentRouter ==
  << [method |-> "GET", path |-> <<"", "get-all-contents">>, handler |-> "get-all-contents"],
     [method |-> "GET", path |-> <<"get-content", ":id">>, handler |-> "get-content"],
     [method |-> "POST", path |-> <<"", "create-post">>, handler |-> "create-post"],
     [method |-> "PUT", path |-> <<"", "update-post">>, handler |-> "update-post"],
     [method |-> "DELETE", path |-> <<"", "delete-post", ":id">>, handler |-> "delete-post"],
     [method |-> "DELETE", path |-> <<"", "delete-posts">>, handler |-> "delete-posts"] >>

\* app.use(prefix, router)
Mounts ==
  << [prefix |-> <<"", "v1", "users">>, router |-> userRouter],
     [prefix |-> <<"", "v1", "content">>, router |-> contentRouter],
     [prefix |-> <<"", "v1", "announcements">>, router |-> announcementRouter],
     [prefix |-> <<"", "v1", "registered-emails">>, router |-> registeredEmailRouter],
     [prefix |-> <<"", "v1", "auth">>, router |-> authRouter] >>

\* a trailing slash is optional (non-strict routing)
Trim(path) ==
  IF Len(path) > 1 /\ path[Len(path)] = "" THEN SubSeq(path, 1, Len(path) - 1)
  ELSE path

\* does the route pattern match the path the router sees
PathMatches(pattern, path) ==
  LET p == Trim(pattern)
      q == Trim(path)
  IN /\ Len(p) = Len(q)
     /\ \A i \in 1 .. Len(p) : p[i] = ":id" \/ p[i] = q[i]

HasPrefix(prefix, url) ==
  /\ Len(url) >= Len(prefix)
  /\ SubSeq(url, 1, Len(prefix)) = prefix

\* the path a mounted router sees: the url without the prefix, leading slash kept
Stripped(prefix, url) == <<"">> \o SubSeq(url, Len(prefix) + 1, Len(url))

RouteMatches(m, r, method, url) ==
  /\ HasPrefix(Mounts[m].prefix, url)
  /\ Mounts[m].router[r].method = method
  /\ PathMatches(Mounts[m].router[r].path, Stripped(Mounts[m].prefix, url))

\* the handler the request reaches, "none" when no route matches
Dispatch(method, url) ==
  LET hits == {mr \in {<<m, r>> : m \in DOMAIN Mounts, r \in 1 .. 7} :
                 /\ mr[2] \in DOMAIN Mounts[mr[1]].router
                 /\ RouteMatches(mr[1], mr[2], method, url)}
  IN IF hits = {} THEN "none"
     ELSE LET first == CHOOSE h \in hits :
                         \A g \in hits : h[1] < g[1] \/ (h[1] = g[1] /\ h[2] <= g[2])
          IN Mounts[first[1]].router[first[2]].handler

Url(mount, pieces) == <<"", "v1", mount>> \o pieces

\* req.params.id is the text of the path piece; the backend reads the number back
IdText(id) == ToString(id)
IdOf(text) == CHOOSE i \in 0 .. 100 : ToString(i) = text

(***************************************************************************)
(* One request, from dispatch to response.  op is the handler the client   *)
(* addresses, tbl the table behind the router it is sent to.               *)
(***************************************************************************)
Receive(tbl, op, method, url, arg, bes) ==
  /\ inflight = <<>>
  /\ target = tbl
  /\ req' = [op |-> op, handler |-> Dispatch(method, url), arg |-> arg, be |-> bes,
             at |-> now]
  /\ UNCHANGED <<now, inflight, target>>

\* the request reached the handler it addresses
Routed == req'.handler = req'.op

\* no route matched: the framework answers
NoRoute ==
  /\ res' = NotFoundPage
  /\ UNCHANGED db

\* the row-count check before an insert of n rows
\* (variant that lets one row too many through)
MutOverLimitOffByOne(count, n, ceiling) == count + n > ceiling + 1
\* (variant that counts a bulk insert as one row)
MutOverLimitCountsOneRow(count, n, ceiling) == count + 1 > ceiling
\* (variant that turns the last admissible row away)
MutOverLimitStrict(count, n, ceiling) == count + n >= ceiling
OverLimit(count, n, ceiling) == count + n > ceiling

(***************************************************************************)
(* user-service                                                            *)
(***************************************************************************)
OtherThanUsers == <<content_posts, announcements, registered_emails>>

GetAllUsers(be) ==
  /\ Receive("users", "get-all-users", "GET",
             Url("users", <<"get-all-users">>), Null, <<be>>)
  /\ IF Routed THEN
      /\ res' = IF be = "error" THEN Json(500, Err(BackendMsg))
                ELSE Json(200, SelectAll(users))
      /\ UNCHANGED db
     ELSE NoRoute

GetUser(id, be) ==
  /\ Receive("users", "get-user", "GET",
             Url("users", <<"get-user", IdText(id)>>), id, <<be>>)
  /\ IF Routed THEN
      LET r == Single(SelectEq(users, "id", IdOf(IdText(id))), be)
      IN /\ res' = IF r.error THEN Json(404, Err(BackendMsg)) ELSE Json(200, r.data)
         /\ UNCHANGED db
     ELSE NoRoute

CreateUser(body, salt, beCount, beInsert) ==
  /\ Receive("users", "create-user", "POST",
             Url("users", <<"create-user">>), body, <<beCount, beInsert>>)
  /\ IF Routed THEN
      IF FalsyPw(body)
      THEN /\ res' = Json(400, Err("Password is required."))
           /\ UNCHANGED db
      ELSE IF beCount = "error"
      THEN /\ res' = Json(500, Err(BackendMsg))
           /\ UNCHANGED db
      ELSE IF OverLimit(Count(users), 1, UsersCeiling)
      THEN /\ res' = Json(400, Err("Total users cannot exceed 10."))
           /\ UNCHANGED db
      ELSE IF beInsert = "error"
      THEN /\ res' = Json(400, Err(BackendMsg))
           /\ UNCHANGED db
      ELSE LET row == Spread(Rest(body, "password"),
                             [password |-> BcryptHash(body.password, salt)])
           IN /\ fresh + 1 <= MaxFresh
              /\ fresh' = fresh + 1
              /\ users' = InsertRows(users, seq.users, UserDefaults, <<row>>)
              /\ seq' = [seq EXCEPT !.users = @ + 1]
              /\ res' = Json(201, Inserted(users', seq.users, <<row>>))
              /\ UNCHANGED OtherThanUsers
     ELSE NoRoute

\* body: [array |-> is it an array, items |-> its elements]
CreateUsers(body, salt, beCount, beInsert) ==
  /\ Receive("users", "create-users", "POST",
             Url("users", <<"create-users">>), body, <<beCount, beInsert>>)
  /\ IF Routed THEN
      IF ~body.array
      THEN /\ res' = Json(400, Err("Request body must be an array of users."))
           /\ UNCHANGED db
      ELSE IF \E k \in DOMAIN body.items : FalsyPw(body.items[k])
      THEN \* the map callback throws: the handler's promise rejects
           /\ res' \in Rejections
           /\ UNCHANGED db
      ELSE IF beCount = "error"
      THEN /\ res' = Json(500, Err(BackendMsg))
           /\ UNCHANGED db
      ELSE IF OverLimit(Count(users), Len(body.items), UsersCeiling)
      THEN /\ res' = Json(400, Err("Total users cannot exceed 10."))
           /\ UNCHANGED db
      ELSE IF beInsert = "error"
      THEN /\ res' = Json(400, Err(BackendMsg))
           /\ UNCHANGED db
      ELSE LET rows == [k \in DOMAIN body.items |->
                          Spread(Rest(body.items[k], "password"),
                                 [password |-> BcryptHash(body.items[k].password, salt[k])])]
           IN /\ fresh + Len(rows) <= MaxFresh
              /\ fresh' = fresh + Len(rows)
              /\ users' = InsertRows(users, seq.users, UserDefaults, rows)
              /\ seq' = [seq EXCEPT !.users = @ + Len(rows)]
              /\ res' = Json(201, Inserted(users', seq.users, rows))
              /\ UNCHANGED OtherThanUsers
     ELSE NoRoute

UpdateUser(body, salt, be) ==
  /\ Receive("users", "update-user", "PUT", Url("users", <<"update-user">>), body, <<be>>)
  /\ IF Routed THEN
      IF FalsyId(body)
      THEN /\ res' = Json(400, Err("User ID is required in the request body."))
           /\ UNCHANGED db
      ELSE IF be = "error"
      THEN /\ res' = Json(400, Err(BackendMsg))
           /\ UNCHANGED db
      ELSE LET rest == Rest(body, "id")
               updateData == IF ~FalsyPw(rest)
                             THEN Spread(rest, [password |-> BcryptHash(rest.password, salt)])
                             ELSE rest
           IN /\ users' = UpdateRows(users, body.id, updateData)
              /\ res' = Json(200, RowsFrom(users', DOMAIN users \cap {body.id}))
              /\ UNCHANGED <<OtherThanUsers, seq, fresh>>
     ELSE NoRoute

DeleteUser(id, be) ==
  /\ Receive("users", "delete-user", "DELETE",
             Url("users", <<"delete-user", IdText(id)>>), id, <<be>>)
  /\ IF Routed THEN
      IF be = "error"
      THEN /\ res' = Json(400, Err(BackendMsg))
           /\ UNCHANGED db
      ELSE /\ users' = DeleteRows(users, {IdOf(IdText(id))})
           /\ res' = Json(200, Null)
           /\ UNCHANGED <<OtherThanUsers, seq, fresh>>
     ELSE NoRoute

\* body: [ids |-> set of ids], or a body without ids: the handler passes ids
\* on unvalidated, and the filter built from an undefined list selects no row
BodyIds(body) == IF "ids" \in DOMAIN body THEN body.ids ELSE {}

\* the handler hands ids to the client's .in() as it came; for an undefined
\* list the client, depending on its version, throws inside the handler or
\* builds the empty filter
DeleteUsers(body, be) ==
  /\ Receive("users", "delete-users", "DELETE",
             Url("users", <<"delete-users">>), body, <<be>>)
  /\ IF Routed THEN
      \/ /\ "ids" \notin DOMAIN body
         /\ res' \in Rejections
         /\ UNCHANGED db
      \/ IF be = "error"
         THEN /\ res' = Json(400, Err(BackendMsg))
              /\ UNCHANGED db
         ELSE /\ users' = DeleteRows(users, BodyIds(body))
              /\ res' = Json(200, Null)
              /\ UNCHANGED <<OtherThanUsers, seq, fresh>>
     ELSE NoRoute

(***************************************************************************)
(* login-service                                                           *)
(***************************************************************************)
\* the object the login response carries (variant: the whole row)
MutUserDataWholeRow(user) == user
userData(user) ==
  [f \in {"id", "email", "first_name", "middle_name", "last_name", "suffix"} |-> user[f]]

\* the answer to a login turned away, after the lookup ("lookup") or after the
\* comparison ("password"): the same literal at both places
\* (variant that tells a failed lookup from a wrong password)
MutInvalidCredentialsTelling(cause) ==
  IF cause = "lookup" THEN Json(404, Err("User not found."))
  ELSE Json(401, Err("Invalid password."))
InvalidCredentials(cause) == Json(401, Err("Invalid email or password."))

Login(body, be) ==
  /\ Receive("users", "login", "POST", Url("auth", <<"login">>), body, <<be>>)
  /\ IF Routed THEN
      /\ UNCHANGED db
      /\ IF FalsyStr(body, "email") \/ FalsyPw(body)
         THEN res' = Json(400, Err("Email and password are required."))
         ELSE LET r == Single(SelectEq(users, "email", body.email), be)
              IN IF r.error
                 THEN res' = InvalidCredentials("lookup")
                 ELSE IF ~BcryptCompare(body.password, r.data.password)
                 THEN res' = InvalidCredentials("password")
                 ELSE res' = Json(200, [message |-> "Login successful",
                                        userData |-> userData(r.data)])
     ELSE NoRoute

(***************************************************************************)
(* announcement-service                                                    *)
(***************************************************************************)
OtherThanAnnouncements == <<users, content_posts, registered_emails>>

\* the expired flag of an announcement created at created_at, read at time t
Expired(created_at, t) ==
  LET diffDays == (t - created_at) \div MsPerDay
  IN IF diffDays > ExpiryDays THEN "true" ELSE "false"

\* (variant that returns the rows as stored)
MutProcessedPlain(rows, t) == rows
Processed(rows, t) ==
  [k \in DOMAIN rows |-> Spread(rows[k], [expired |-> Expired(rows[k].created_at, t)])]

GetAllAnnouncements(be) ==
  /\ Receive("announcements", "get-all-announcements", "GET",
             Url("announcements", <<"get-all-announcements">>), Null, <<be>>)
  /\ IF Routed THEN
      /\ res' = IF be = "error" THEN Json(500, Err(BackendMsg))
                ELSE Json(200, Processed(SelectAll(announcements), now))
      /\ UNCHANGED db
     ELSE NoRoute

GetAnnouncement(id, be) ==
  /\ Receive("announcements", "get-announcement", "GET",
             Url("announcements", <<"get-announcement", IdText(id)>>), id, <<be>>)
  /\ IF Routed THEN
      LET r == Single(SelectEq(announcements, "id", IdOf(IdText(id))), be)
      IN /\ res' = IF r.error THEN Json(404, Err(BackendMsg)) ELSE Json(200, r.data)
         /\ UNCHANGED db
     ELSE NoRoute

CreateAnnouncement(body, beCount, beInsert) ==
  /\ Receive("announcements", "create-announcement", "POST",
             Url("announcements", <<"create-announcement">>), body, <<beCount, beInsert>>)
  /\ IF Routed THEN
      IF beCount = "error"
      THEN /\ res' = Json(500, Err(BackendMsg))
           /\ UNCHANGED db
      ELSE IF OverLimit(Count(announcements), 1, AnnouncementsCeiling)
      THEN /\ res' = Json(400, Err("Total announcements already reached its limit."))
           /\ UNCHANGED db
      ELSE IF beInsert = "error"
      THEN /\ res' = Json(400, Err(BackendMsg))
           /\ UNCHANGED db
      ELSE /\ fresh + 1 <= MaxFresh
           /\ fresh' = fresh + 1
           /\ announcements' = InsertRows(announcements, seq.announcements,
                                          AnnouncementDefaults, <<body>>)
           /\ seq' = [seq EXCEPT !.announcements = @ + 1]
           /\ res' = Json(201, Inserted(announcements', seq.announcements, <<body>>))
           /\ UNCHANGED OtherThanAnnouncements
     ELSE NoRoute

UpdateAnnouncement(body, be) ==
  /\ Receive("announcements", "update-announcement", "PUT",
             Url("announcements", <<"update-announcement">>), body, <<be>>)
  /\ IF Routed THEN
      IF FalsyId(body)
      THEN /\ res' = Json(400, Err("Announcement ID is required in the request body."))
           /\ UNCHANGED db
      ELSE IF be = "error"
      THEN /\ res' = Json(400, Err(BackendMsg))
           /\ UNCHANGED db
      ELSE /\ announcements' = UpdateRows(announcements, body.id, Rest(body, "id"))
           /\ res' = Json(200, RowsFrom(announcements', DOMAIN announcements \cap {body.id}))
           /\ UNCHANGED <<OtherThanAnnouncements, seq, fresh>>
     ELSE NoRoute

DeleteAnnouncement(id, be) ==
  /\ Receive("announcements", "delete-announcement", "DELETE",
             Url("announcements", <<"delete-announcement", IdText(id)>>), id, <<be>>)
  /\ IF Routed THEN
      IF be = "error"
      THEN /\ res' = Json(400, Err(BackendMsg))
           /\ UNCHANGED db
      ELSE /\ announcements' = DeleteRows(announcements, {IdOf(IdText(id))})
           /\ res' = Json(200, Null)
           /\ UNCHANGED <<OtherThanAnnouncements, seq, fresh>>
     ELSE NoRoute

\* !Array.isArray(ids) || ids.length === 0
NoIds(body) == "ids" \notin DOMAIN body \/ body.ids = {}

DeleteAnnouncements(body, be) ==
  /\ Receive("announcements", "delete-announcements", "DELETE",
             Url("announcements", <<"delete-announcements">>), body, <<be>>)
  /\ IF Routed THEN
      IF NoIds(body)
      THEN /\ res' = Json(400, Err("Request body must include an array of ids."))
           /\ UNCHANGED db
      ELSE IF be = "error"
      THEN /\ res' = Json(400, Err(BackendMsg))
           /\ UNCHANGED db
      ELSE /\ announcements' = DeleteRows(announcements, body.ids)
           /\ res' = Json(200, Null)
           /\ UNCHANGED <<OtherThanAnnouncements, seq, fresh>>
     ELSE NoRoute

\* time passes between requests
Tick ==
  /\ inflight = <<>>
  /\ now < MaxTicks * TickMs
  /\ now' = now + TickMs
  /\ UNCHANGED <<db, req, res, inflight, target>>

(***************************************************************************)
(* regisetered-email-service                                               *)
(***************************************************************************)
OtherThanEmails == <<users, content_posts, announcements>>

GetAllRegisteredEmails(be) ==
  /\ Receive("registered_emails", "get-all-registered-emails", "GET",
             Url("registered-emails", <<"get-all-registered-emails">>), Null, <<be>>)
  /\ IF Routed THEN
      /\ res' = IF be = "error" THEN Json(500, Err(BackendMsg))
                ELSE Json(200, SelectAll(registered_emails))
      /\ UNCHANGED db
     ELSE NoRoute

GetRegisteredEmail(id, be) ==
  /\ Receive("registered_emails", "get-registered-email", "GET",
             Url("registered-emails", <<"get-registered-email", IdText(id)>>), id, <<be>>)
  /\ IF Routed THEN
      LET r == Single(SelectEq(registered_emails, "id", IdOf(IdText(id))), be)
      IN /\ res' = IF r.error THEN Json(404, Err(BackendMsg)) ELSE Json(200, r.data)
         /\ UNCHANGED db
     ELSE NoRoute

Register(body, beCount, beInsert) ==
  /\ Receive("registered_emails", "register", "POST",
             Url("registered-emails", <<"register">>), body,
             <<beCount, beInsert>>)
  /\ IF Routed THEN
      IF FalsyStr(body, "email")
      THEN /\ res' = Json(400, Err("Email is required"))
           /\ UNCHANGED db
      ELSE IF beCount = "error"
      THEN /\ res' = Json(500, Err(BackendMsg))
           /\ UNCHANGED db
      ELSE IF OverLimit(Count(registered_emails), 1, EmailsCeiling)
      THEN /\ res' = Json(400, Err("Total registered emails already reached its limit."))
           /\ UNCHANGED db
      ELSE IF beInsert = "error"
      THEN /\ res' = Json(400, Err(BackendMsg))
           /\ UNCHANGED db
      ELSE LET row == [email |-> body.email]
           IN /\ fresh + 1 <= MaxFresh
              /\ fresh' = fresh + 1
              /\ registered_emails' = InsertRows(registered_emails, seq.registered_emails,
                                                 EmailDefaults, <<row>>)
              /\ seq' = [seq EXCEPT !.registered_emails = @ + 1]
              /\ res' = Json(201, Inserted(registered_emails', seq.registered_emails, <<row>>))
              /\ UNCHANGED OtherThanEmails
     ELSE NoRoute

\* a PUT sent to the registered-emails mount: the router declares no PUT route
PutRegisteredEmail(piece, body) ==
  /\ Receive("registered_emails", "update-registered-email", "PUT",
             Url("registered-emails", <<piece>>), body, <<>>)
  /\ IF Routed THEN
      FALSE
     ELSE NoRoute

DeleteEmail(id, be) ==
  /\ Receive("registered_emails", "delete-email", "DELETE",
             Url("registered-emails", <<"delete-email", IdText(id)>>), id, <<be>>)
  /\ IF Routed THEN
      IF be = "error"
      THEN /\ res' = Json(400, Err(BackendMsg))
           /\ UNCHANGED db
      ELSE /\ registered_emails' = DeleteRows(registered_emails, {IdOf(IdText(id))})
           /\ res' = Json(200, Null)
           /\ UNCHANGED <<OtherThanEmails, seq, fresh>>
     ELSE NoRoute

DeleteEmails(body, be) ==
  /\ Receive("registered_emails", "delete-emails", "DELETE",
             Url("registered-emails", <<"delete-emails">>), body, <<be>>)
  /\ IF Routed THEN
      IF "ids" \notin DOMAIN body
      THEN /\ res' = Json(400, Err("Body must be { ids: [...] }"))
           /\ UNCHANGED db
      ELSE IF be = "error"
      THEN /\ res' = Json(400, Err(BackendMsg))
           /\ UNCHANGED db
      ELSE /\ registered_emails' = DeleteRows(registered_emails, body.ids)
           /\ res' = Json(200, Null)
           /\ UNCHANGED <<OtherThanEmails, seq, fresh>>
     ELSE NoRoute

(***************************************************************************)
(* content-service                                                         *)
(***************************************************************************)
OtherThanPosts == <<users, announcements, registered_emails>>

GetAllContents(be) ==
  /\ Receive("content_posts", "get-all-contents", "GET",
             Url("content", <<"get-all-contents">>), Null, <<be>>)
  /\ IF Routed THEN
      /\ res' = IF be = "error" THEN Json(500, Err(BackendMsg))
                ELSE Json(200, SelectAll(content_posts))
      /\ UNCHANGED db
     ELSE NoRoute

GetContent(id, be) ==
  /\ Receive("content_posts", "get-content", "GET",
             Url("content", <<"get-content", IdText(id)>>), id, <<be>>)
  /\ IF Routed THEN
      LET r == Single(SelectEq(content_posts, "id", IdOf(IdText(id))), be)
      IN /\ res' = IF r.error THEN Json(404, Err(BackendMsg)) ELSE Json(200, r.data)
         /\ UNCHANGED db
     ELSE NoRoute

CreatePost(body, beCount, beInsert) ==
  /\ Receive("content_posts", "create-post", "POST",
             Url("content", <<"create-post">>), body, <<beCount, beInsert>>)
  /\ IF Routed THEN
      IF beCount = "error"
      THEN /\ res' = Json(500, Err(BackendMsg))
           /\ UNCHANGED db
      ELSE IF OverLimit(Count(content_posts), 1, PostsCeiling)
      THEN /\ res' = Json(400, Err("Total content posts already reached its limit."))
           /\ UNCHANGED db
      ELSE IF beInsert = "error"
      THEN /\ res' = Json(400, Err(BackendMsg))
           /\ UNCHANGED db
      ELSE /\ fresh + 1 <= MaxFresh
           /\ fresh' = fresh + 1
           /\ content_posts' = InsertRows(content_posts, seq.content_posts, PostDefaults, <<body>>)
           /\ seq' = [seq EXCEPT !.content_posts = @ + 1]
           /\ res' = Json(201, Inserted(content_posts', seq.content_posts, <<body>>))
           /\ UNCHANGED OtherThanPosts
     ELSE NoRoute

UpdatePost(body, be) ==
  /\ Receive("content_posts", "update-post", "PUT",
             Url("content", <<"update-post">>), body, <<be>>)
  /\ IF Routed THEN
      IF FalsyId(body)
      THEN /\ res' = Json(400, Err("Content post ID is required in the request body."))
           /\ UNCHANGED db
      ELSE IF be = "error"
      THEN /\ res' = Json(400, Err(BackendMsg))
           /\ UNCHANGED db
      ELSE /\ content_posts' = UpdateRows(content_posts, body.id, Rest(body, "id"))
           /\ res' = Json(200, RowsFrom(content_posts', DOMAIN content_posts \cap {body.id}))
           /\ UNCHANGED <<OtherThanPosts, seq, fresh>>
     ELSE NoRoute

DeletePost(id, be) ==
  /\ Receive("content_posts", "delete-post", "DELETE",
             Url("content", <<"delete-post", IdText(id)>>), id, <<be>>)
  /\ IF Routed THEN
      IF be = "error"
      THEN /\ res' = Json(400, Err(BackendMsg))
           /\ UNCHANGED db
      ELSE /\ content_posts' = DeleteRows(content_posts, {IdOf(IdText(id))})
           /\ res' = Json(200, Null)
           /\ UNCHANGED <<OtherThanPosts, seq, fresh>>
     ELSE NoRoute

DeletePosts(body, be) ==
  /\ Receive("content_posts", "delete-posts", "DELETE",
             Url("content", <<"delete-posts">>), body, <<be>>)
  /\ IF Routed THEN
      IF NoIds(body)
      THEN /\ res' = Json(400, Err("Request body must include an array of ids."))
           /\ UNCHANGED db
      ELSE IF be = "error"
      THEN /\ res' = Json(400, Err(BackendMsg))
           /\ UNCHANGED db
      ELSE /\ content_posts' = DeleteRows(content_posts, body.ids)
           /\ res' = Json(200, Null)
           /\ UNCHANGED <<OtherThanPosts, seq, fresh>>
     ELSE NoRoute

(***************************************************************************)
(* A single-row create request as the steps the event loop runs: the       *)
(* handler up to its first backend call, the row-count query with the      *)
(* limit check, the insert with the response.  Requests of several clients *)
(* interleave between the steps.                                           *)
(***************************************************************************)
Tbl(t) ==
  CASE t = "users" -> users
    [] t = "content_posts" -> content_posts
    [] t = "announcements" -> announcements
    [] t = "registered_emails" -> registered_emails

CreateOp(t) ==
  CASE t = "users" -> "create-user"
    [] t = "content_posts" -> "create-post"
    [] t = "announcements" -> "create-announcement"
    [] t = "registered_emails" -> "register"

Defaults(t) ==
  CASE t = "users" -> UserDefaults
    [] t = "content_posts" -> PostDefaults
    [] t = "announcements" -> AnnouncementDefaults
    [] t = "registered_emails" -> EmailDefaults

LimitMsg(t) ==
  CASE t = "users" -> "Total users cannot exceed 10."
    [] t = "content_posts" -> "Total content posts already reached its limit."
    [] t = "announcements" -> "Total announcements already reached its limit."
    [] t = "registered_emails" -> "Total registered emails already reached its limit."

\* the row a valid create request of the model inserts
NewRow(t) ==
  CASE t = "users" -> [email |-> "a@x", password |-> BcryptHash(Plain("p1"), 1)]
    [] t = "content_posts" -> [title |-> "t1"]
    [] t = "announcements" -> [title |-> "t1"]
    [] t = "registered_emails" -> [email |-> "a@x"]

Answer(c, response, be) ==
  /\ res' = response
  /\ req' = [op |-> CreateOp(inflight[c].table), handler |-> CreateOp(inflight[c].table),
             arg |-> c, be |-> be, at |-> now]
  /\ inflight' = [d \in DOMAIN inflight \ {c} |-> inflight[d]]

BeginCreate(c, t) ==
  /\ target = t
  /\ c \notin DOMAIN inflight
  /\ inflight' = [d \in DOMAIN inflight \cup {c} |->
                    IF d = c THEN [table |-> t, pc |-> "count"] ELSE inflight[d]]
  /\ UNCHANGED <<db, now, req, res, target>>

CountQuery(c, be) ==
  /\ c \in DOMAIN inflight
  /\ inflight[c].pc = "count"
  /\ LET t == inflight[c].table
     IN IF be = "error"
        THEN Answer(c, Json(500, Err(BackendMsg)), <<be>>)
        ELSE IF OverLimit(Count(Tbl(t)), 1, Ceiling(t))
        THEN Answer(c, Json(400, Err(LimitMsg(t))), <<be>>)
        ELSE /\ inflight' = [inflight EXCEPT ![c].pc = "insert"]
             /\ UNCHANGED <<req, res>>
  /\ UNCHANGED <<db, now, target>>

InsertRow(c, be) ==
  /\ c \in DOMAIN inflight
  /\ inflight[c].pc = "insert"
  /\ LET t == inflight[c].table
         new == InsertRows(Tbl(t), seq[t], Defaults(t), <<NewRow(t)>>)
     IN IF be = "error"
        THEN /\ Answer(c, Json(400, Err(BackendMsg)), <<"ok", be>>)
             /\ UNCHANGED db
        ELSE /\ fresh + 1 <= MaxFresh
             /\ fresh' = fresh + 1
             /\ users' = IF t = "users" THEN new ELSE users
             /\ content_posts' = IF t = "content_posts" THEN new ELSE content_posts
             /\ announcements' = IF t = "announcements" THEN new ELSE announcements
             /\ registered_emails' = IF t = "registered_emails" THEN new
                                     ELSE registered_emails
             /\ seq' = [seq EXCEPT ![t] = @ + 1]
             /\ Answer(c, Json(201, Inserted(new, seq[t], <<NewRow(t)>>)), <<"ok", be>>)
  /\ UNCHANGED <<now, target>>

(***************************************************************************)
(* Initial states.                                                         *)
(***************************************************************************)
NoReq == [op |-> "none", handler |-> "none", arg |-> Null, be |-> <<>>, at |-> 0]
NoRes == [status |-> 0, type |-> "none", body |-> "none"]

InitEmpty ==
  /\ users = <<>>
  /\ content_posts = <<>>
  /\ announcements = <<>>
  /\ registered_emails = <<>>
  /\ seq = [t \in TableNames |-> 1]
  /\ fresh = 0
  /\ now = 0
  /\ req = NoReq
  /\ res = NoRes
  /\ inflight = <<>>
  /\ target \in TableNames

(***************************************************************************)
(* Spec: every route of the gateway, requests processed one at a time,     *)
(* starting from empty tables.                                             *)
(***************************************************************************)
\* ids a request may address
ReqIds == 1 .. 2

ApiUser == [email |-> "a@x", password |-> Plain("p1"), first_name |-> "Ann"]
ApiUserBodies == {ApiUser, Rest(ApiUser, "password")}
ApiUsersBodies ==
  {[array |-> TRUE, items |-> <<ApiUser>>],
   [array |-> TRUE, items |-> <<ApiUser, Rest(ApiUser, "password")>>],
   [array |-> FALSE, items |-> <<>>]}
ApiUserUpdates == {[id |-> 1, first_name |-> "Bob"], [first_name |-> "Bob"]}
ApiLogins ==
  {[email |-> "a@x", password |-> Plain("p1")],
   [email |-> "a@x", password |-> Plain("p2")],
   [email |-> "a@x"]}
ApiItems == {[title |-> "t1"]}
ApiItemUpdates == {[id |-> 1, title |-> "t2"], [title |-> "t2"]}
ApiEmails == {[email |-> "a@x"], [other |-> "x"]}
ApiEmailUpdates == {[id |-> 1, email |-> "b@x"], [email |-> "b@x"]}
ApiBulk == {[ids |-> {1}], [ids |-> {}], [other |-> "x"]}

UserRequests ==
  \/ \E be \in Backend : GetAllUsers(be)
  \/ \E id \in ReqIds, be \in Backend : GetUser(id, be)
  \/ \E b \in ApiUserBodies, c \in Backend, i \in Backend : CreateUser(b, 1, c, i)
  \/ \E b \in ApiUsersBodies, c \in Backend, i \in Backend :
        CreateUsers(b, [k \in DOMAIN b.items |-> 1], c, i)
  \/ \E b \in ApiUserUpdates, be \in Backend : UpdateUser(b, 1, be)
  \/ \E id \in ReqIds, be \in Backend : DeleteUser(id, be)
  \/ \E b \in ApiBulk, be \in Backend : DeleteUsers(b, be)
  \/ \E b \in ApiLogins, be \in Backend : Login(b, be)

AnnouncementRequests ==
  \/ \E be \in Backend : GetAllAnnouncements(be)
  \/ \E id \in ReqIds, be \in Backend : GetAnnouncement(id, be)
  \/ \E b \in ApiItems, c \in Backend, i \in Backend : CreateAnnouncement(b, c, i)
  \/ \E b \in ApiItemUpdates, be \in Backend : UpdateAnnouncement(b, be)
  \/ \E id \in ReqIds, be \in Backend : DeleteAnnouncement(id, be)
  \/ \E b \in ApiBulk, be \in Backend : DeleteAnnouncements(b, be)

EmailRequests ==
  \/ \E be \in Backend : GetAllRegisteredEmails(be)
  \/ \E id \in ReqIds, be \in Backend : GetRegisteredEmail(id, be)
  \/ \E b \in ApiEmails, c \in Backend, i \in Backend : Register(b, c, i)
  \/ \E b \in ApiEmailUpdates : PutRegisteredEmail("update-registered-email", b)
  \/ \E id \in ReqIds, be \in Backend : DeleteEmail(id, be)
  \/ \E b \in ApiBulk, be \in Backend : DeleteEmails(b, be)

ContentRequests ==
  \/ \E be \in Backend : GetAllContents(be)
  \/ \E id \in ReqIds, be \in Backend : GetContent(id, be)
  \/ \E b \in ApiItems, c \in Backend, i \in Backend : CreatePost(b, c, i)
  \/ \E b \in ApiItemUpdates, be \in Backend : UpdatePost(b, be)
  \/ \E id \in ReqIds, be \in Backend : DeletePost(id, be)
  \/ \E b \in ApiBulk, be \in Backend : DeletePosts(b, be)

Next ==
  \/ UserRequests
  \/ AnnouncementRequests
  \/ EmailRequests
  \/ ContentRequests

Spec == InitEmpty /\ [][Next]_vars

(***************************************************************************)
(* SpecCap: creates and deletes, one request at a time, on tables that     *)
(* start at or just below their ceilings.                                  *)
(***************************************************************************)
SeedUser ==
  [email |-> "seed@x", password |-> BcryptHash(Plain("seed"), 1), first_name |-> "Seed",
   middle_name |-> Null, last_name |-> Null, suffix |-> Null]
SeedRow(t) ==
  CASE t = "users" -> SeedUser
    [] t = "content_posts" -> [title |-> "seed"]
    [] t = "announcements" -> [title |-> "seed", created_at |-> 0]
    [] t = "registered_emails" -> [email |-> "seed@x"]

Seeded(t, n) == [i \in 1 .. n |-> Spread(SeedRow(t), [id |-> i])]

\* the target table starts at most InitGap rows below its ceiling, the tables
\* the run does not address start empty
InitRows(t, n) == IF t = target THEN Seeded(t, Ceiling(t) - n) ELSE <<>>

InitNearFull ==
  /\ target \in TableNames
  /\ \E n \in 0 .. InitGap :
        /\ users = InitRows("users", n)
        /\ content_posts = InitRows("content_posts", n)
        /\ announcements = InitRows("announcements", n)
        /\ registered_emails = InitRows("registered_emails", n)
        /\ seq = [t \in TableNames |-> Count(InitRows(t, n)) + 1]
  /\ fresh = 0
  /\ now = 0
  /\ req = NoReq
  /\ res = NoRes
  /\ inflight = <<>>

\* ids a delete may address: the last seeded rows and the fresh ones
CapIds(t) == (Ceiling(t) - 1) .. (Ceiling(t) + 1)
CapUsersBodies ==
  {[array |-> TRUE, items |-> <<ApiUser>>],
   [array |-> TRUE, items |-> <<ApiUser, ApiUser>>],
   [array |-> FALSE, items |-> <<>>]}

NextCap ==
  \/ \E c \in Backend, i \in Backend : CreateUser(ApiUser, 1, c, i)
  \/ \E b \in CapUsersBodies, c \in Backend, i \in Backend :
        CreateUsers(b, [k \in DOMAIN b.items |-> 1], c, i)
  \/ \E id \in CapIds("users"), be \in Backend : DeleteUser(id, be)
  \/ \E id \in CapIds("users"), be \in Backend : DeleteUsers([ids |-> {id}], be)
  \/ \E b \in ApiItems, c \in Backend, i \in Backend : CreatePost(b, c, i)
  \/ \E id \in CapIds("content_posts"), be \in Backend : DeletePost(id, be)
  \/ \E id \in CapIds("content_posts"), be \in Backend : DeletePosts([ids |-> {id}], be)
  \/ \E b \in ApiItems, c \in Backend, i \in Backend : CreateAnnouncement(b, c, i)
  \/ \E id \in CapIds("announcements"), be \in Backend : DeleteAnnouncement(id, be)
  \/ \E id \in CapIds("announcements"), be \in Backend :
        DeleteAnnouncements([ids |-> {id}], be)
  \/ \E c \in Backend, i \in Backend : Register([email |-> "a@x"], c, i)
  \/ \E id \in CapIds("registered_emails"), be \in Backend : DeleteEmail(id, be)
  \/ \E id \in CapIds("registered_emails"), be \in Backend :
        DeleteEmails([ids |-> {id}], be)

SpecCap == InitNearFull /\ [][NextCap]_vars

\* C1: with requests processed one at a time, starting from tables at or below
\* their ceilings, no table ever holds more rows than its ceiling (10 users,
\* 5 content posts, 5 announcements, 60 registered emails).
C1_CeilingsHold ==
  /\ Count(users) <= 10
  /\ Count(content_posts) <= 5
  /\ Count(announcements) <= 5
  /\ Count(registered_emails) <= 60

\* a create request that found its table full and was turned away, on a table
\* that an earlier request of the run filled
C1_Witness ==
  /\ fresh > 0
  /\ req.op \in {"create-user", "create-users", "create-post", "create-announcement",
                 "register"}
  /\ req.be = <<"ok", "ok">>
  /\ res.status = 400
  /\ \/ req.op \in {"create-user", "create-users"} /\ Count(users) = 10
     \/ req.op = "create-post" /\ Count(content_posts) = 5
     \/ req.op = "create-announcement" /\ Count(announcements) = 5
     \/ req.op = "register" /\ Count(registered_emails) = 60

\* a single-row create body its handler accepts
ValidCreate(t, body) ==
  CASE t = "users" -> ~FalsyPw(body)
    [] t = "registered_emails" -> ~FalsyStr(body, "email")
    [] OTHER -> TRUE

\* C11: a valid single-row create request, processed on its own with the
\* backend answering its count query and its insert, is answered 201 and adds
\* exactly one row to its table whenever the table holds fewer rows than its
\* ceiling (the last free place included, so the table fills to exactly the
\* ceiling), and is answered 400 with every table unchanged when the table
\* already holds ceiling rows; in both cases the rows already stored and every
\* other table stay as they were.
C11_CreateBelowCeilingElseReject ==
  [][\A t \in TableNames :
       (/\ req'.op = CreateOp(t)
        /\ req'.handler = req'.op
        /\ ValidCreate(t, req'.arg)
        /\ req'.be = <<"ok", "ok">>)
         => /\ IF Count(Tbl(t)) < Ceiling(t)
               THEN /\ res'.type = "json" /\ res'.status = 201
                    /\ Count(Tbl(t)') = Count(Tbl(t)) + 1
                    /\ \A i \in DOMAIN Tbl(t) :
                         i \in DOMAIN Tbl(t)' /\ Tbl(t)'[i] = Tbl(t)[i]
               ELSE /\ res'.type = "json" /\ res'.status = 400
                    /\ Tbl(t)' = Tbl(t)
            /\ \A u \in TableNames \ {t} : Tbl(u)' = Tbl(u)
    ]_vars

\* a single-row create answered 201 that took the last free place of its table
C11_Witness ==
  /\ req.op = CreateOp(target)
  /\ req.be = <<"ok", "ok">>
  /\ res.status = 201
  /\ Count(Tbl(target)) = Ceiling(target)
  /\ fresh > 0

\* C12: create-users is all-or-nothing with respect to the ceiling.  For a body
\* that is an array of n users each with a password, the backend answering the
\* count query and the insert: if the row count + n exceeds 10 the answer is
\* 400 and no row is inserted; otherwise the answer is 201 and exactly the n
\* users are inserted, the rows already stored staying as they were.  A body
\* that is not an array is answered 400 and nothing is inserted.  No other
\* table changes.
C12_BulkCreateAllOrNothing ==
  [][(req'.op = "create-users" /\ req'.handler = req'.op) =>
       LET b == req'.arg
           n == Len(b.items)
       IN /\ UNCHANGED OtherThanUsers
          /\ ~b.array => res'.type = "json" /\ res'.status = 400 /\ users' = users
          /\ (/\ b.array
              /\ \A k \in DOMAIN b.items : ~FalsyPw(b.items[k])
              /\ req'.be = <<"ok", "ok">>)
               => IF Count(users) + n > 10
                  THEN res'.type = "json" /\ res'.status = 400 /\ users' = users
                  ELSE /\ res'.type = "json" /\ res'.status = 201
                       /\ Count(users') = Count(users) + n
                       /\ \A i \in DOMAIN users :
                            i \in DOMAIN users' /\ users'[i] = users[i]
                       /\ Len(res'.body) = n
                       /\ \A k \in 1 .. n :
                            /\ res'.body[k].id \in DOMAIN users' \ DOMAIN users
                            /\ users'[res'.body[k].id] = res'.body[k]
                            /\ res'.body[k].email = b.items[k].email
                            /\ BcryptCompare(b.items[k].password, res'.body[k].password)
                       /\ \A j, k \in 1 .. n : j # k => res'.body[j].id # res'.body[k].id
    ]_vars

\* a bulk create of two users answered 201 that filled the table to its ceiling
C12_Witness ==
  /\ req.op = "create-users"
  /\ req.arg.array /\ Len(req.arg.items) = 2
  /\ res.status = 201
  /\ Count(users) = 10
  /\ fresh = 2

(***************************************************************************)
(* SpecAnn: the announcements router while time passes.  Announcements are *)
(* created during the first day and read for the days after.               *)
(***************************************************************************)
InitAnn == InitEmpty /\ target = "announcements"

NextAnn ==
  \/ Tick
  \/ /\ now <= TickMs
     /\ \E b \in ApiItems : CreateAnnouncement(b, "ok", "ok")
  \/ \E be \in Backend : GetAllAnnouncements(be)
  \/ \E id \in ReqIds : GetAnnouncement(id, "ok")
  \/ \E id \in ReqIds : DeleteAnnouncement(id, "ok")

SpecAnn == InitAnn /\ [][NextAnn]_vars

\* C2: every announcement returned by get-all-announcements carries expired =
\* "true" exactly when more than 15 days (any fraction beyond 15 included) lie
\* between its created_at and the time of the request, and "false" otherwise.
C2_ExpiredIffOver15Days ==
  (req.op = "get-all-announcements" /\ res.status = 200) =>
    \A k \in DOMAIN res.body :
      res.body[k].expired =
        (IF req.at - res.body[k].created_at > 15 * MsPerDay THEN "true" ELSE "false")

\* what get-all-announcements reports at time t for the announcement id
ListedAt(id, t) ==
  LET listed == Processed(SelectAll(announcements), t)
  IN {listed[k] : k \in {j \in DOMAIN listed : listed[j].id = id}}

\* C13 as stated: the announcement returned by get-announcement/{id} carries
\* the expired value that get-all-announcements reports for it at that time.
C13_ExpiredOnEveryRead ==
  (req.op = "get-announcement" /\ req.handler = req.op /\ res.status = 200) =>
    /\ "expired" \in DOMAIN res.body
    /\ \A a \in ListedAt(req.arg, req.at) : res.body.expired = a.expired

\* C13 amended: only get-all-announcements attaches the expired flag: every
\* announcement it returns is the stored row with expired "true" or "false"
\* added; get-announcement/{id} returns the stored row as it is, without an
\* expired field.
C13_ExpiredOnlyInList ==
  /\ (req.op = "get-all-announcements" /\ req.handler = req.op /\ res.status = 200) =>
       /\ Len(res.body) = Count(announcements)
       /\ \A k \in DOMAIN res.body :
            /\ "expired" \in DOMAIN res.body[k]
            /\ res.body[k].expired \in {"true", "false"}
            /\ res.body[k].id \in DOMAIN announcements
            /\ Rest(res.body[k], "expired") = announcements[res.body[k].id]
  /\ (req.op = "get-announcement" /\ req.handler = req.op /\ res.status = 200) =>
       /\ req.arg \in DOMAIN announcements
       /\ res.body = announcements[req.arg]
       /\ "expired" \notin DOMAIN res.body

\* a get-announcement answered with a row that get-all-announcements reports
\* as expired at the same time
C13_Witness ==
  /\ req.op = "get-announcement"
  /\ res.status = 200
  /\ "expired" \notin DOMAIN res.body
  /\ \E a \in ListedAt(req.arg, req.at) : a.expired = "true"

(***************************************************************************)
(* SpecUsers: the users router and the login route, one request at a time, *)
(* starting from an empty users table.                                     *)
(***************************************************************************)
InitUsers == InitEmpty /\ target = "users"

AuthEmails == {"a@x", "b@x"}
AuthUserBodies ==
  {[email |-> e, password |-> Plain("p1"), first_name |-> "Ann"] : e \in AuthEmails}
    \cup {[email |-> "a@x", password |-> Plain("")], [email |-> "a@x"]}
AuthUsersBodies ==
  {[array |-> TRUE, items |-> <<[email |-> "a@x", password |-> Plain("p2")]>>],
   [array |-> TRUE, items |-> <<[email |-> "b@x", password |-> Plain("")]>>]}
AuthUpdates ==
  {[id |-> 1, password |-> Plain("p2")], [id |-> 1, password |-> Plain("")],
   [id |-> 2, email |-> "a@x"], [password |-> Plain("p2")]}
AuthLogins ==
  {[email |-> e, password |-> Plain(p)] : e \in AuthEmails, p \in {"p1", "p2"}}
    \cup {[email |-> "a@x"], [password |-> Plain("p1")],
          [email |-> "a@x", password |-> Plain("")]}

NextUsers ==
  \/ \E b \in AuthUserBodies, s \in Salts : CreateUser(b, s, "ok", "ok")
  \/ \E b \in AuthUsersBodies, s \in Salts :
        CreateUsers(b, [k \in DOMAIN b.items |-> s], "ok", "ok")
  \/ \E b \in AuthUpdates, s \in Salts : UpdateUser(b, s, "ok")
  \/ \E id \in ReqIds : DeleteUser(id, "ok")
  \/ \E b \in AuthLogins, be \in Backend : Login(b, be)

SpecUsers == InitUsers /\ [][NextUsers]_vars

LoginBothPresent ==
  /\ req.op = "login"
  /\ "email" \in DOMAIN req.arg /\ req.arg.email # ""
  /\ "password" \in DOMAIN req.arg /\ req.arg.password.text # ""

\* the rows with the submitted email whose stored password is the bcrypt hash
\* of the submitted password
MatchingRows ==
  {i \in DOMAIN users :
     /\ users[i].email = req.arg.email
     /\ users[i].password.hashed
     /\ users[i].password.text = req.arg.password.text}

RowsWithEmail == {i \in DOMAIN users : users[i].email = req.arg.email}

\* C3: a successful login answers with the reduced projection (id, email,
\* first_name, middle_name, last_name, suffix) of the matched user and nothing
\* else of the row; no login response, success or failure, carries a password.
C3_LoginHidesHash ==
  req.op = "login" =>
    /\ res.type = "json"
    /\ res.status = 200 =>
         /\ DOMAIN res.body = {"message", "userData"}
         /\ DOMAIN res.body.userData =
              {"id", "email", "first_name", "middle_name", "last_name", "suffix"}
         /\ \E i \in MatchingRows :
              \A f \in DOMAIN res.body.userData : res.body.userData[f] = users[i][f]
    /\ res.status # 200 =>
         /\ DOMAIN res.body = {"error"}
         /\ res.body.error \in {"Email and password are required.",
                                "Invalid email or password."}

\* a login that succeeded on a user whose row holds a bcrypt hash
C3_Witness ==
  /\ req.op = "login"
  /\ res.status = 200
  /\ \E i \in MatchingRows : res.body.userData.id = i /\ users[i].password.hashed

\* C4 as stated: with both fields present, 200 exactly when some row has the
\* email and a stored hash matching the password, 401 otherwise; 400 when a
\* field is missing.
C4_LoginIffSomeRowMatches ==
  req.op = "login" =>
    IF LoginBothPresent
    THEN /\ res.status = 200 <=> MatchingRows # {}
         /\ res.status # 200 => res.status = 401
    ELSE res.status = 400

\* C4 amended: with both fields present, 200 exactly when the lookup succeeds
\* and finds one single row with the email and that row's stored hash matches
\* the password; 401 in every other case (no row, several rows with the email,
\* a failed lookup, a mismatch); 400 when a field is missing, whatever the
\* backend would have answered.
C4_LoginIffSingleRowMatches ==
  req.op = "login" =>
    IF LoginBothPresent
    THEN /\ res.status = 200 <=>
              /\ req.be = <<"ok">>
              /\ Cardinality(RowsWithEmail) = 1
              /\ MatchingRows = RowsWithEmail
         /\ res.status # 200 => res = Json(401, Err("Invalid email or password."))
    ELSE res = Json(400, Err("Email and password are required."))

\* a login turned away with 401 although a row matches email and password,
\* because a second row carries the same email
C4_Witness ==
  /\ LoginBothPresent
  /\ req.be = <<"ok">>
  /\ MatchingRows # {}
  /\ Cardinality(RowsWithEmail) = 2
  /\ res.status = 401

\* a successful create-user or create-users stores, under a fresh id, a row
\* with the submitted email whose hash matches the submitted password
CreateStoresCredentials ==
  /\ (req'.op = "create-user" /\ req'.handler = req'.op /\ res'.status = 201) =>
       LET row == res'.body[1]
       IN /\ row.id \notin DOMAIN users
          /\ row.id \in DOMAIN users' /\ users'[row.id] = row
          /\ row.email = req'.arg.email
          /\ BcryptCompare(req'.arg.password, row.password)
  /\ (req'.op = "create-users" /\ req'.handler = req'.op /\ res'.status = 201) =>
       \A k \in DOMAIN req'.arg.items :
         LET row == res'.body[k]
         IN /\ row.id \notin DOMAIN users
            /\ row.id \in DOMAIN users' /\ users'[row.id] = row
            /\ row.email = req'.arg.items[k].email
            /\ BcryptCompare(req'.arg.items[k].password, row.password)

\* the step is a delete of row i
DeletesRow(i) ==
  \/ req'.op = "delete-user" /\ req'.arg = i
  \/ req'.op = "delete-users" /\ i \in BodyIds(req'.arg)

\* a row stays, with its email and its password, through every request that
\* is not a delete of it or an update of it carrying that field
OtherRequestsKeepCredentials ==
  \A i \in DOMAIN users :
    ~DeletesRow(i) =>
      /\ i \in DOMAIN users'
      /\ \A f \in {"email", "password"} :
           ~(req'.op = "update-user" /\ ~FalsyId(req'.arg) /\ req'.arg.id = i
               /\ f \in DOMAIN req'.arg)
             => users'[i][f] = users[i][f]

\* update-user with a non-empty password on an existing row leaves that row
\* with a hash that matches the new password and no other
UpdateSetsPassword ==
  (/\ req'.op = "update-user" /\ req'.handler = req'.op
   /\ ~FalsyId(req'.arg) /\ req'.arg.id \in DOMAIN users
   /\ ~FalsyPw(req'.arg)
   /\ req'.be = <<"ok">>)
    => /\ res'.status = 200
       /\ \A p \in {"p1", "p2"} :
            BcryptCompare(Plain(p), users'[req'.arg.id].password)
              <=> p = req'.arg.password.text

\* C14 as stated: a created user's credentials keep working.  create-user and
\* create-users store email and password hash; every request that is not a
\* delete of the row or an update of its email or password leaves them in
\* place; update-user replaces the password; and a login with the email and
\* password of a stored row is answered 200 whatever other rows the table
\* holds (another user with the same email included), a login with a password
\* no row of that email has is answered 401.
C14_LoginFollowsStoredCredentials ==
  [][/\ CreateStoresCredentials
     /\ OtherRequestsKeepCredentials
     /\ UpdateSetsPassword
     /\ (LoginBothPresent' /\ req'.handler = req'.op /\ req'.be = <<"ok">>) =>
          /\ MatchingRows' # {} => res'.status = 200
          /\ MatchingRows' = {} => res'.status = 401
    ]_vars

\* C14 amended: as above, but the login with the email and password of a
\* stored row is answered 200 when the lookup succeeds and no other row
\* carries the same email; as soon as a second row with that email exists
\* (created or made so by an update) the login is answered 401 for both rows.
C14_LoginFollowsUniqueCredentials ==
  [][/\ CreateStoresCredentials
     /\ OtherRequestsKeepCredentials
     /\ UpdateSetsPassword
     /\ (LoginBothPresent' /\ req'.handler = req'.op /\ req'.be = <<"ok">>) =>
          /\ (MatchingRows' # {} /\ Cardinality(RowsWithEmail') = 1) =>
               /\ res'.status = 200
               /\ res'.body.userData.id \in MatchingRows'
          /\ Cardinality(RowsWithEmail') > 1 => res'.status = 401
          /\ MatchingRows' = {} => res'.status = 401
    ]_vars

\* a login answered 200 for the first user, created by create-user (the only
\* request that stores the first name), after a second user with another email
\* was created and update-user replaced the first user's password by p2
C14_Witness ==
  /\ LoginBothPresent
  /\ res.status = 200
  /\ res.body.userData.id = 1
  /\ Count(users) = 2
  /\ \A i \in DOMAIN users \ {1} : users[i].email # users[1].email
  /\ users[1].first_name = "Ann"
  /\ req.arg.password.text = "p2"

\* C15: a failed login does not tell whether the email is registered.  With
\* both fields present, a login turned away because no row has the email,
\* because the lookup failed (a backend error, or several rows with the
\* email), or because the password does not match gets one and the same
\* response, 401 with error 'Invalid email or password.', in every state of
\* the users table; and no login request changes a table.
C15_FailedLoginsIndistinguishable ==
  [][(req'.op = "login" /\ req'.handler = req'.op) =>
       /\ UNCHANGED <<tables, seq>>
       /\ LoginBothPresent' =>
            LET failure == Json(401, Err("Invalid email or password."))
            IN /\ RowsWithEmail' = {} => res' = failure
               /\ req'.be = <<"error">> => res' = failure
               /\ Cardinality(RowsWithEmail') > 1 => res' = failure
               /\ MatchingRows' = {} => res' = failure
               /\ res'.status # 200 => res' = failure
    ]_vars

\* a login with the email of a stored user and a password that does not match,
\* turned away with the response an unknown email gets
C15_Witness ==
  /\ LoginBothPresent
  /\ req.be = <<"ok">>
  /\ Cardinality(RowsWithEmail) = 1
  /\ \A i \in RowsWithEmail : users[i].password.hashed
  /\ MatchingRows = {}
  /\ res = Json(401, Err("Invalid email or password."))

\* C5: every password stored in the users table is bcrypt output; no request
\* persists a submitted password unhashed.
C5_StoredPasswordsHashed ==
  \A i \in DOMAIN users : users[i].password.hashed

\* requests that reached the handler they address
Handled == req.op # "none" /\ req.handler = req.op

\* C6: every request that reaches a handler is answered, failures as a JSON
\* object with an error message and status 400, 401, 404 or 500; a create-users
\* array holding a user without a password gets a 400 JSON error and inserts
\* nothing.
C6_EveryRequestAnsweredInJson ==
  Handled =>
    /\ res.type = "json"
    /\ res.status \in {200, 201, 400, 401, 404, 500}
    /\ res.status \notin {200, 201} => DOMAIN res.body = {"error"}
    /\ (/\ req.op = "create-users"
        /\ req.arg.array
        /\ \E k \in DOMAIN req.arg.items : "password" \notin DOMAIN req.arg.items[k])
         => res.status = 400

ReadOps ==
  {"get-all-users", "get-all-contents", "get-all-announcements",
   "get-all-registered-emails", "get-user", "get-content", "get-announcement",
   "get-registered-email"}
GetByIdOps == {"get-user", "get-content", "get-announcement", "get-registered-email"}
WriteOps ==
  {"update-user", "update-post", "update-announcement", "delete-user", "delete-users",
   "delete-post", "delete-posts", "delete-announcement", "delete-announcements",
   "delete-email", "delete-emails"}

TableOfOp(op) ==
  CASE op \in {"get-user", "update-user"} -> users
    [] op \in {"get-content", "update-post"} -> content_posts
    [] op \in {"get-announcement", "update-announcement"} -> announcements
    [] op \in {"get-registered-email", "update-registered-email"} -> registered_emails

\* C7: failure statuses follow the cause: a failed backend read (get-all,
\* get-by-id, user lookup of login) is answered with 500, 404 only answers a
\* get-by-id that found no row, a failed update or delete is answered with 400,
\* and 401 only answers a login whose credentials do not match.
C7_StatusFollowsCause ==
  Handled =>
    /\ (req.op \in ReadOps /\ req.be = <<"error">>) => res.status = 500
    /\ (LoginBothPresent /\ req.be = <<"error">>) => res.status = 500
    /\ res.status = 404 =>
         /\ req.op \in GetByIdOps
         /\ req.be = <<"ok">>
         /\ req.arg \notin DOMAIN TableOfOp(req.op)
    /\ (req.op \in WriteOps /\ req.be = <<"error">> /\ res.type = "json")
         => res.status = 400
    /\ res.status = 401 =>
         /\ LoginBothPresent
         /\ req.be = <<"ok">>
         /\ MatchingRows = {}

\* C8: on each of the four data resources a get-by-id request for the id of a
\* row is handled by the resource's get-by-id handler and answered 200 with
\* that row, and a get-by-id for an id without a row gets the handler's 404
\* JSON error.
C8_GetByIdReturnsRow ==
  (req.op \in GetByIdOps /\ req.be = <<"ok">>) =>
    /\ req.handler = req.op
    /\ IF req.arg \in DOMAIN TableOfOp(req.op)
       THEN res = Json(200, TableOfOp(req.op)[req.arg])
       ELSE res.type = "json" /\ res.status = 404 /\ DOMAIN res.body = {"error"}

\* what an update-by-id request of a resource does to the resource's table
\* (before, after) and to the response
UpdatesById(before, after) ==
  LET b == req'.arg
  IN /\ req'.handler = req'.op
     /\ DOMAIN after = DOMAIN before
     /\ \A i \in DOMAIN after : after[i].id = i
     /\ \A i \in DOMAIN before : (FalsyId(b) \/ i # b.id) => after[i] = before[i]
     /\ FalsyId(b) => res'.type = "json" /\ res'.status = 400
     /\ (~FalsyId(b) /\ b.id \in DOMAIN before /\ req'.be = <<"ok">>) =>
          /\ res' = Json(200, <<after[b.id]>>)
          /\ \A f \in DOMAIN before[b.id] :
               after[b.id][f] =
                 IF f \in DOMAIN b \ {"id", "password"} THEN b[f]
                 ELSE IF f = "password" /\ f \in DOMAIN b /\ ~FalsyPw(b)
                 THEN [hashed |-> TRUE, salt |-> after[b.id][f].salt, text |-> b[f].text]
                 ELSE IF f = "password" /\ f \in DOMAIN b THEN b[f]
                 ELSE before[b.id][f]

\* C9 as stated: each of the four data resources (registered emails included)
\* has an update-by-id: it sets the submitted fields on the row with the body's
\* id only, never changes ids, other rows or the row count, and rejects a body
\* without id with 400.
C9_AllFourUpdateById ==
  [][/\ req'.op = "update-user" =>
          UpdatesById(users, users') /\ UNCHANGED OtherThanUsers
     /\ req'.op = "update-post" =>
          UpdatesById(content_posts, content_posts') /\ UNCHANGED OtherThanPosts
     /\ req'.op = "update-announcement" =>
          UpdatesById(announcements, announcements') /\ UNCHANGED OtherThanAnnouncements
     /\ req'.op = "update-registered-email" =>
          UpdatesById(registered_emails, registered_emails') /\ UNCHANGED OtherThanEmails
    ]_vars

\* C9 amended: users, content posts and announcements each have an
\* update-by-id that sets the submitted fields (the password as its hash when
\* it is not empty) on the row with the body's id only, never changes ids,
\* other rows, the row count or another table, and rejects a body without id
\* with 400; registered emails have no update route: a PUT sent to that router
\* gets the framework's 404 and changes no table.
C9_ThreeUpdateById ==
  [][/\ req'.op = "update-user" =>
          UpdatesById(users, users') /\ UNCHANGED OtherThanUsers
     /\ req'.op = "update-post" =>
          UpdatesById(content_posts, content_posts') /\ UNCHANGED OtherThanPosts
     /\ req'.op = "update-announcement" =>
          UpdatesById(announcements, announcements') /\ UNCHANGED OtherThanAnnouncements
     /\ req'.op = "update-registered-email" =>
          res' = NotFoundPage /\ UNCHANGED tables
    ]_vars

\* an update that changed one of two rows
C9_Witness ==
  /\ req.op \in {"update-user", "update-post", "update-announcement"}
  /\ res.status = 200
  /\ Len(res.body) = 1
  /\ LET t == TableOfOp(req.op)
     IN /\ Count(t) = 2
        /\ \E i \in DOMAIN t : t[i] # t[req.arg.id] /\ i # req.arg.id
        /\ \E f \in DOMAIN req.arg \ {"id"} :
             \A i \in DOMAIN t \ {req.arg.id} : t[i][f] # t[req.arg.id][f]

(***************************************************************************)
(* Bulk deletes.                                                           *)
(***************************************************************************)
BulkDeleteOp(t) ==
  CASE t = "users" -> "delete-users"
    [] t = "content_posts" -> "delete-posts"
    [] t = "announcements" -> "delete-announcements"
    [] t = "registered_emails" -> "delete-emails"

\* C16: on every resource, a bulk-delete request whose body has no ids (or
\* ids that are not an array) or an empty ids array is answered 400 by the
\* handler's own validation, whatever the backend would answer, and deletes
\* nothing; a bulk-delete with a non-empty array, answered by the backend,
\* removes exactly the rows whose id is in the array and leaves the other
\* rows as they were; no bulk-delete changes another table.
C16_BulkDeleteValidatesAndFrames ==
  [][\A t \in TableNames :
       (req'.op = BulkDeleteOp(t) /\ req'.handler = req'.op) =>
         /\ \A u \in TableNames \ {t} : Tbl(u)' = Tbl(u)
         /\ IF NoIds(req'.arg)
            THEN /\ res'.type = "json" /\ res'.status = 400
                 /\ res'.body # Err(BackendMsg)
                 /\ Tbl(t)' = Tbl(t)
            ELSE req'.be = <<"ok">> =>
                   /\ DOMAIN Tbl(t)' = DOMAIN Tbl(t) \ req'.arg.ids
                   /\ \A i \in DOMAIN Tbl(t)' : Tbl(t)'[i] = Tbl(t)[i]
    ]_vars

(***************************************************************************)
(* SpecConc: create requests of several clients in flight at once, on      *)
(* tables that start at or just below their ceilings.                      *)
(***************************************************************************)
Clients == 1 .. NumClients

NextConc ==
  \/ \E c \in Clients, t \in TableNames : BeginCreate(c, t)
  \/ \E c \in Clients, be \in Backend : CountQuery(c, be)
  \/ \E c \in Clients, be \in Backend : InsertRow(c, be)

SpecConc == InitNearFull /\ [][NextConc]_vars

\* C10: with create requests in flight concurrently, the count query and the
\* insert of each being separate backend steps, no table ever holds more rows
\* than its ceiling.
C10_CeilingsHoldConcurrently ==
  \A t \in TableNames : Count(Tbl(t)) <= Ceiling(t)

====
